---------------------------- MODULE Spec2Model ----------------------------
(* code-marshal: the session orchestrator of src/src/main.rs (main), its   *)
(* two ingestion pumps, the normalizer task and the message store they     *)
(* share.  MsgStore and the normalizer are declared by the repository      *)
(* (crates/utils/src/lib.rs: pub mod msg_store; executors::normalize_logs) *)
(* but their bodies are not among the sources; they are modelled from the *)
(* specification (sections 3, 4.1 and 4.2).                                *)
EXTENDS Integers, Sequences, FiniteSets, TLC

\* ------------------------------------------------------------------ bounds
MaxAppends == 2     \* appends by the pumps and the normalizer together
MaxErrs == 2        \* error items the orchestrator's subscription yields
MaxReads == 2       \* recorded reads per pump
MaxEntries == 2     \* entries of a patch drawn for the display
MaxArgs == 3        \* arguments after the program name

VARIABLES
  args,             \* the command line after the program name
  parsed,           \* main's locals set by the argument loop
  pc,               \* main's position: parse, agent, spawn, wire_stdout,
                    \*   wire_stderr, normalize, subscribe, loop, and where it
                    \*   returned: done, failed, usage, listed, checked,
                    \*   bad_args, bad_agent, no_agent
  spawned,          \* the result of agent.spawn: "none" (not called), "ok", "err"
  readLog,          \* the chunks each pump has read (recorded by PumpRead)
  include_raw_logs, \* --raw
  pretty,           \* --pretty
  hasStdout,        \* spawned.child.inner().stdout is Some
  hasStderr,        \* spawned.child.inner().stderr is Some
  exit_signal,      \* spawned.exit_signal: "none" (no channel), "pending",
                    \*   "sent" (the process exited), "closed" (sender dropped)
  storeMade,        \* MsgStore::new() has run
  history,          \* the store's sequence of Log Messages
  pump,             \* pump task of each channel: "unstarted", "reading", "stopped"
  norm,             \* normalizer task: "unstarted", "running"
  sent,             \* appends made so far by each producer
  sub,              \* main's subscription: "none", "open", "ended"
  cursor,           \* main's subscription: messages yielded so far
  replayLen,        \* main's subscription: length of the replay part
  errs,             \* error items main's subscription has yielded
  nsub,             \* the normalizer's subscription: "none", "open"
  ncursor,          \* the normalizer's subscription: messages yielded so far
  nreplayLen,       \* the normalizer's subscription: length of the replay part
  nseen,            \* the messages the normalizer was delivered
  processed,        \* the messages main's loop has received
  out,              \* the event lines main has printed
  sys               \* the [SYSTEM] lines main has printed from step 7 on

vars == <<args, parsed, spawned, readLog, pc, include_raw_logs, pretty, hasStdout, hasStderr, exit_signal,
          storeMade, history, pump, norm, sent, sub, cursor, replayLen,
          errs, nsub, ncursor, nreplayLen, nseen, processed, out, sys>>

cli == <<args, parsed>>
flags == <<include_raw_logs, pretty>>
child == <<hasStdout, hasStderr>>
nview == <<nsub, ncursor, nreplayLen, nseen>>
shown == <<processed, out>>

Channels == {"stdout", "stderr"}
Producers == {"stdout", "stderr", "norm", "main"}


\* ---------------------------------------------------------------- messages
\* A Log Message.  kind is the variant; src and n name the append (the
\* producer and the number of that append among the producer's own), which
\* is what "the same message" means below; text is the payload of Stdout and
\* Stderr (a sequence of code points); patch is the payload of JsonPatch (a
\* sequence of patch entries), empty for the other variants.
LogMsg(kind, src, n, text) ==
  [kind |-> kind, src |-> src, n |-> n, text |-> text, patch |-> <<>>]

\* LogMsg::JsonPatch(patch).
JsonPatchMsg(src, n, patch) == [LogMsg("JsonPatch", src, n, <<>>) EXCEPT !.patch = patch]

\* An entry of a patch as serde_json::to_value gives it: op, path and a
\* value, which is absent (type "none") or an object tagged by its type.
PatchEntry(op, path, value) == [op |-> op, path |-> path, value |-> value]

PatchValue(type, entry_type, content) ==
  [type |-> type, entry_type |-> entry_type, content |-> content]

NoValue == PatchValue("none", "", <<>>)

\* The chunks a read may return: an empty one, and one byte that is no valid
\* UTF-8 (its decoded text differs from the bytes read).
Chunks == {<<>>, <<255>>}

\* The chunks a recorded read may return: also an ASCII byte followed by a
\* byte that is no valid UTF-8.
ReadChunks == Chunks \cup {<<104, 255>>}

\* String::from_utf8_lossy on the bytes modelled: an ASCII byte is kept, a
\* byte that starts no valid sequence becomes U+FFFD.
FromUtf8Lossy(bytes) ==
  [i \in DOMAIN bytes |-> IF bytes[i] < 128 THEN bytes[i] ELSE 65533]

\* format!("[code-marshal] {ch} read error: {e}"): a text that is never
\* empty and is no decoded chunk.
ReadErrorText(ch) == IF ch = "stdout" THEN <<-1>> ELSE <<-2>>

\* The variant a pump pushes for a chunk of its channel.
ChannelKind(ch) == IF ch = "stdout" THEN "Stdout" ELSE "Stderr"

\* The variants the normalizer appends here.  main has an arm of its own for
\* SessionId and for Finished only; JsonPatch stands for the variants it
\* hands to the display and nothing else (MessageId, Ready, JsonPatch).
NormKinds == {"SessionId", "JsonPatch", "Finished"}

\* The patch of the JsonPatch appended here: one assistant entry is added.
NormPatch ==
  <<PatchEntry("add", "/entries/0", PatchValue("NORMALIZED_ENTRY", "AssistantMessage", <<72, 10>>))>>

\* The n-th message of the normalizer, of variant k.
NormMsg(k, n) ==
  IF k = "JsonPatch" THEN JsonPatchMsg("norm", n, NormPatch) ELSE LogMsg(k, "norm", n, <<>>)

\* ------------------------------------------------------------------- store
\* (variant: the message goes to the front of the sequence)
PushFront(h, m) == <<m>> \o h

\* MsgStore::push: the message goes to the end of the sequence.
Push(h, m) == Append(h, m)

\* MsgStore::history_plus_stream: the subscription starts before the first
\* message of the history, and goes on with the live appends.
HistoryPlusStream == 0

\* (variant: the message before the position is yielded once more)
StreamItemStale(h, c) == h[IF c = 0 THEN 1 ELSE c]

\* What stream.next() yields at position c of history h.
StreamItem(h, c) == h[c + 1]

IsRaw(msg) == msg.kind \in {"Stdout", "Stderr"}

\* ----------------------------------------------------------------- display
\* str::trim_end: the text without its trailing white space.
RECURSIVE TrimEnd(_)
TrimEnd(t) ==
  IF t # <<>> /\ t[Len(t)] \in {9, 10, 13, 32} THEN TrimEnd(SubSeq(t, 1, Len(t) - 1)) ELSE t

\* A line of pretty_print_logmsg: "[EVENT][tag][kind] body", the tag of a
\* generic entry carrying its variant, the line of a Diff or of an absent
\* value carrying the path.
PrettyLine(tag, variant, kind, body, path) ==
  [mode |-> "pretty", tag |-> tag, variant |-> variant, kind |-> kind, body |-> body,
   path |-> path]

\* The line of the default mode: "[AGENT_EVENT] " and the message as JSON.
JsonLine(msg) == [mode |-> "json", msg |-> msg]

\* serde_json::from_value to PatchEntry succeeds: op is one of PatchOp, the
\* value is absent or tagged with one of PatchValue.
Parses(e) ==
  /\ e.op \in {"add", "replace", "remove"}
  /\ e.value.type \in {"none", "NORMALIZED_ENTRY", "STDOUT", "STDERR", "DIFF"}

\* The tag of the line of a normalized entry.
EntryTag(entry_type) ==
  CASE entry_type = "AssistantMessage" -> "assistant"
    [] entry_type = "SystemMessage" -> "system"
    [] entry_type = "Thinking" -> "thinking"
    [] entry_type = "ErrorMessage" -> "error"
    [] entry_type = "ToolUse" -> "tool"
    [] OTHER -> "entry"

\* The line of the `for e in entries` body for the entry e.
EntryLine(e) ==
  CASE e.value.type = "NORMALIZED_ENTRY" ->
         PrettyLine(EntryTag(e.value.entry_type),
                    IF EntryTag(e.value.entry_type) = "entry" THEN e.value.entry_type ELSE "",
                    e.op, TrimEnd(e.value.content), "")
    [] e.value.type = "STDOUT" -> PrettyLine("stdout", "", e.op, TrimEnd(e.value.content), "")
    [] e.value.type = "STDERR" -> PrettyLine("stderr", "", e.op, TrimEnd(e.value.content), "")
    [] e.value.type = "DIFF" -> PrettyLine("diff", "", e.op, <<>>, e.path)
    [] OTHER -> PrettyLine("patch", "no value", e.op, <<>>, e.path)

\* (variant: the first entry of the patch only)
PatchLinesFirst(patch) ==
  IF \A i \in DOMAIN patch : Parses(patch[i])
  THEN [i \in DOMAIN patch \cap {1} |-> EntryLine(patch[i])]
  ELSE <<PrettyLine("patch", "unparseable", "", <<>>, "")>>

\* The lines of the JsonPatch arm: the whole patch is parsed as a
\* Vec<PatchEntry>; one line per entry if that succeeds, else one line.
PatchLines(patch) ==
  IF \A i \in DOMAIN patch : Parses(patch[i])
  THEN [i \in DOMAIN patch |-> EntryLine(patch[i])]
  ELSE <<PrettyLine("patch", "unparseable", "", <<>>, "")>>

\* pretty_print_logmsg(msg).
PrettyLines(msg) ==
  CASE msg.kind = "SessionId" -> <<PrettyLine("session", "", "", msg.text, "")>>
    [] msg.kind = "MessageId" -> <<PrettyLine("message_id", "", "", msg.text, "")>>
    [] msg.kind = "Finished" -> <<PrettyLine("finished", "", "", <<>>, "")>>
    [] msg.kind = "Ready" -> <<PrettyLine("ready", "", "", <<>>, "")>>
    [] msg.kind = "JsonPatch" -> PatchLines(msg.patch)
    [] msg.kind = "Stdout" -> <<PrettyLine("stdout", "", "", TrimEnd(msg.text), "")>>
    [] msg.kind = "Stderr" -> <<PrettyLine("stderr", "", "", TrimEnd(msg.text), "")>>

\* The lines main prints for a message it displays.
EventLines(msg) == IF pretty THEN PrettyLines(msg) ELSE <<JsonLine(msg)>>

\* -------------------------------------------------------------------- Init
\* main before step 4 of a run without --raw and --pretty (the values the two
\* flags are declared with).
Init ==
  /\ args = <<"p1">>
  /\ parsed = [prompt |-> "p1", agent_type_str |-> "None",
               follow_up_session_id |-> "None", reset_to_message_id |-> "None"]
  /\ spawned = "none"
  /\ readLog = [ch \in Channels |-> <<>>]
  /\ pc = "spawn"
  /\ include_raw_logs = FALSE
  /\ pretty = FALSE
  /\ hasStdout = FALSE
  /\ hasStderr = FALSE
  /\ exit_signal = "none"
  /\ storeMade = FALSE
  /\ history = <<>>
  /\ pump = [ch \in Channels |-> "unstarted"]
  /\ norm = "unstarted"
  /\ sent = [p \in Producers |-> 0]
  /\ sub = "none"
  /\ cursor = 0
  /\ replayLen = 0
  /\ errs = 0
  /\ nsub = "none"
  /\ ncursor = 0
  /\ nreplayLen = 0
  /\ nseen = <<>>
  /\ processed = <<>>
  /\ out = <<>>
  /\ sys = <<>>

\* ------------------------------------------------------- main: steps 4 to 6
\* agent.spawn / agent.spawn_follow_up succeeds: the child's pipes and the
\* exit notification are whatever the executor returns.
SpawnOk ==
  /\ pc = "spawn"
  /\ \E so \in BOOLEAN, se \in BOOLEAN, ex \in {"none", "pending"} :
       /\ hasStdout' = so
       /\ hasStderr' = se
       /\ exit_signal' = ex
  /\ spawned' = "ok"
  /\ pc' = "wire_stdout"
  /\ UNCHANGED <<cli, readLog, flags, storeMade, history, pump, norm, sent, sub, cursor,
                 replayLen, errs, nview, shown, sys>>

\* (variant: the error of the spawn is dropped and main goes on)
SpawnFailGoesOn == "wire_stdout"

\* Where main goes when the spawn fails: `?` returns the error from main.
SpawnFailTo == "failed"

\* agent.spawn / agent.spawn_follow_up fails.
SpawnFail ==
  /\ pc = "spawn"
  /\ spawned' = "err"
  /\ pc' = SpawnFailTo
  /\ UNCHANGED <<cli, readLog, flags, child, exit_signal, storeMade, history, pump, norm,
                 sent, sub, cursor, replayLen, errs, nview, shown, sys>>

\* MsgStore::new(), then the stdout pump is spawned if the child has a stdout.
WireStdout ==
  /\ pc = "wire_stdout"
  /\ storeMade' = TRUE
  /\ pump' = [pump EXCEPT !["stdout"] = IF hasStdout THEN "reading" ELSE @]
  /\ pc' = "wire_stderr"
  /\ UNCHANGED <<cli, spawned, readLog, flags, child, exit_signal, history, norm, sent, sub, cursor,
                 replayLen, errs, nview, shown, sys>>

\* The stderr pump is spawned if the child has a stderr.
WireStderr ==
  /\ pc = "wire_stderr"
  /\ pump' = [pump EXCEPT !["stderr"] = IF hasStderr THEN "reading" ELSE @]
  /\ pc' = "normalize"
  /\ UNCHANGED <<cli, spawned, readLog, flags, child, exit_signal, storeMade, history, norm, sent,
                 sub, cursor, replayLen, errs, nview, shown, sys>>

\* tokio::spawn of normalize_logs.
StartNormalizer ==
  /\ pc = "normalize"
  /\ norm' = "running"
  /\ pc' = "subscribe"
  /\ UNCHANGED <<cli, spawned, readLog, flags, child, exit_signal, storeMade, history, pump, sent,
                 sub, cursor, replayLen, errs, nview, shown, sys>>

\* (variant: main asks for the live stream only)
LiveStreamOnly == Len(history)

\* Where main's subscription starts: main asks for history_plus_stream().
MainStreamStart == HistoryPlusStream

\* println "Task started", msg_store.history_plus_stream(), exit_signal.take().
Subscribe ==
  /\ pc = "subscribe"
  /\ sys' = Append(sys, "TaskStarted")
  /\ sub' = "open"
  /\ cursor' = MainStreamStart
  /\ replayLen' = Len(history)
  /\ pc' = "loop"
  /\ UNCHANGED <<cli, spawned, readLog, flags, child, exit_signal, storeMade, history, pump, norm,
                 sent, errs, nview, shown>>

\* ---------------------------------------------------- main: the race loop
\* The Finished message main pushes.
MainFinished == LogMsg("Finished", "main", sent["main"] + 1, <<>>)

\* println "session concluded", printed once the loop is left.
Concluded(to) == IF to = "done" THEN <<"Concluded">> ELSE <<>>

\* (variant: the branch completes only when the receiver yields no value)
ExitBranchReadyOnClose == exit_signal \in {"none", "closed"}

\* The first branch of select!: `match &mut exit_signal { Some(rx) =>
\* rx.await.ok(), None => None }` completes when there is no receiver, when
\* the value was sent, and when the sender was dropped.
ExitBranchReady == exit_signal \in {"none", "sent", "closed"}

\* (variant: Finished is pushed only when the store holds none)
ExitPushIfAbsent(h) ==
  IF \E i \in DOMAIN h : h[i].kind = "Finished" THEN h ELSE Push(h, MainFinished)

\* (variant: the exit branch pushes nothing)
ExitPushNothing(h) == h

\* The history after the exit branch: msg_store.push_finished().
ExitPush(h) == Push(h, MainFinished)

\* (variant: no break in the exit branch)
AfterExitStay == "loop"

\* Where the loop goes after the exit branch: break.
AfterExit == "done"

\* The exit branch wins: push_finished, println "Child process exited",
\* break, println "session concluded".
ExitBranch ==
  /\ pc = "loop"
  /\ ExitBranchReady
  /\ history' = ExitPush(history)
  /\ sent' = [sent EXCEPT !["main"] = @ + 1]
  /\ sys' = Append(sys, "ChildExited") \o Concluded(AfterExit)
  /\ pc' = AfterExit
  /\ UNCHANGED <<cli, spawned, readLog, flags, child, exit_signal, storeMade, pump, norm, sub, cursor,
                 replayLen, errs, nview, shown>>

\* (variant: the lines of the message are printed before the earlier ones)
DisplayNewestFirst(o, msg) ==
  IF include_raw_logs \/ ~IsRaw(msg) THEN EventLines(msg) \o o ELSE o

\* (variant: every message is displayed)
DisplayAll(o, msg) == o \o EventLines(msg)

\* What main prints as an event for msg: nothing for a raw message without --raw.
Display(o, msg) ==
  IF include_raw_logs \/ ~IsRaw(msg) THEN o \o EventLines(msg) ELSE o

\* The [SYSTEM] lines main prints for msg inside the loop.
SystemLines(msg) ==
  (IF msg.kind = "SessionId" THEN <<"SessionId", "FollowUpUsage">> ELSE <<>>)
    \o (IF msg.kind = "Finished" THEN <<"FinishedReceived">> ELSE <<>>)

\* (variant: no break on Finished)
AfterMsgStay(msg) == "loop"

\* Where the loop goes after msg: it breaks on Finished.
AfterMsg(msg) == IF msg.kind = "Finished" THEN "done" ELSE "loop"

\* stream.next() yields Some(Ok(msg)).
RecvMsg ==
  /\ pc = "loop"
  /\ sub = "open"
  /\ cursor < Len(history)
  /\ LET msg == StreamItem(history, cursor) IN
       /\ cursor' = cursor + 1
       /\ processed' = Append(processed, msg)
       /\ out' = Display(out, msg)
       /\ sys' = sys \o SystemLines(msg) \o Concluded(AfterMsg(msg))
       /\ pc' = AfterMsg(msg)
  /\ UNCHANGED <<cli, spawned, readLog, flags, child, exit_signal, storeMade, history, pump, norm,
                 sent, sub, replayLen, errs, nview>>

\* (variant: break on a stream error)
AfterErrBreak == "done"

\* Where the loop goes after Some(Err(_)): it keeps going.
AfterErr == "loop"

\* stream.next() yields Some(Err(_)).
RecvErr ==
  /\ pc = "loop"
  /\ sub = "open"
  /\ errs < MaxErrs
  /\ errs' = errs + 1
  /\ sys' = sys \o Concluded(AfterErr)
  /\ pc' = AfterErr
  /\ UNCHANGED <<cli, spawned, readLog, flags, child, exit_signal, storeMade, history, pump, norm,
                 sent, sub, cursor, replayLen, nview, shown>>

\* (variant: no push_finished when the stream ends)
EndNoPush(h) == h

\* The history after main's arm for None: msg_store.push_finished().
EndPush(h) == Push(h, MainFinished)

\* stream.next() yields None: push_finished, break, println "concluded".
RecvEnd ==
  /\ pc = "loop"
  /\ sub = "open"
  /\ cursor = Len(history)
  /\ sub' = "ended"
  /\ history' = EndPush(history)
  /\ sent' = [sent EXCEPT !["main"] = @ + 1]
  /\ sys' = Append(sys, "Concluded")
  /\ pc' = "done"
  /\ UNCHANGED <<cli, spawned, readLog, flags, child, exit_signal, storeMade, pump, norm, cursor,
                 replayLen, errs, nview, shown>>

\* ------------------------------------------------------------------- pumps
\* The budget of appends left to the pumps and the normalizer.
MayAppend == Len(history) - sent["main"] < MaxAppends

\* (variant: the chunk is pushed a second time after the match)
PumpPushTwice(h, ch, bytes) ==
  LET s == FromUtf8Lossy(bytes)
      m == LogMsg(ChannelKind(ch), ch, sent[ch] + 1, s)
  IN IF s # <<>> THEN Push(Push(h, m), m) ELSE h

\* (variant: the decoded text is pushed without the test for emptiness)
PumpPushAlways(h, ch, bytes) ==
  Push(h, LogMsg(ChannelKind(ch), ch, sent[ch] + 1, FromUtf8Lossy(bytes)))

\* The history after the pump of ch has handled Ok(bytes).
PumpPush(h, ch, bytes) ==
  LET s == FromUtf8Lossy(bytes) IN
  IF s # <<>> THEN Push(h, LogMsg(ChannelKind(ch), ch, sent[ch] + 1, s)) ELSE h

\* The pump of ch handles Some(Ok(bytes)).
PumpHandle(ch, bytes) ==
  /\ pump[ch] = "reading"
  /\ history' = PumpPush(history, ch, bytes)
  /\ sent' = [sent EXCEPT ![ch] = IF FromUtf8Lossy(bytes) # <<>> THEN @ + 1 ELSE @]
  /\ UNCHANGED <<pc, cli, spawned, flags, child, exit_signal, storeMade, pump,
                 norm, sub, cursor, replayLen, errs, nview, shown, sys>>

\* stream.next() of the pump of ch yields Some(Ok(bytes)).
PumpOk(ch) ==
  /\ MayAppend
  /\ \E bytes \in Chunks : PumpHandle(ch, bytes)
  /\ UNCHANGED readLog

\* The same read, of a wider choice of chunks and with the chunk recorded.
PumpRead(ch) ==
  /\ Len(readLog[ch]) < MaxReads
  /\ \E bytes \in ReadChunks :
       /\ PumpHandle(ch, bytes)
       /\ readLog' = [readLog EXCEPT ![ch] = Append(@, bytes)]

\* (variant: no break after the read error)
PumpAfterErrReading == "reading"

\* The pump after a read error: break.
PumpAfterErr == "stopped"

\* (variant: the error of a channel is pushed as a message of that channel)
ReadErrorKindOfChannel(ch) == ChannelKind(ch)

\* The variant pushed for a read error: push_stderr in both pumps.
ReadErrorKind(ch) == "Stderr"

\* The pump of ch handles Some(Err(e)): push_stderr, break.
PumpFail(ch) ==
  /\ pump[ch] = "reading"
  /\ history' = Push(history, LogMsg(ReadErrorKind(ch), ch, sent[ch] + 1, ReadErrorText(ch)))
  /\ sent' = [sent EXCEPT ![ch] = @ + 1]
  /\ pump' = [pump EXCEPT ![ch] = PumpAfterErr]
  /\ UNCHANGED <<pc, cli, spawned, readLog, flags, child, exit_signal, storeMade,
                 norm, sub, cursor, replayLen, errs, nview, shown, sys>>

\* stream.next() of the pump of ch yields Some(Err(e)).
PumpErr(ch) ==
  /\ MayAppend
  /\ PumpFail(ch)

\* stream.next() of the pump of ch yields None: the channel is closed.
PumpEof(ch) ==
  /\ pump[ch] = "reading"
  /\ pump' = [pump EXCEPT ![ch] = "stopped"]
  /\ UNCHANGED <<pc, cli, spawned, readLog, flags, child, exit_signal, storeMade, history, norm, sent,
                 sub, cursor, replayLen, errs, nview, shown, sys>>

\* -------------------------------------------------------------- normalizer
\* The normalizer appends a message of one of its variants.
NormAppend ==
  /\ norm = "running"
  /\ MayAppend
  /\ \E k \in NormKinds :
       history' = Push(history, NormMsg(k, sent["norm"] + 1))
  /\ sent' = [sent EXCEPT !["norm"] = @ + 1]
  /\ UNCHANGED <<pc, cli, spawned, readLog, flags, child, exit_signal, storeMade, pump, norm, sub,
                 cursor, replayLen, errs, nview, shown, sys>>

\* The normalizer subscribes to the store, at any time of its run.
NormSubscribe ==
  /\ norm = "running"
  /\ nsub = "none"
  /\ nsub' = "open"
  /\ ncursor' = HistoryPlusStream
  /\ nreplayLen' = Len(history)
  /\ UNCHANGED <<pc, cli, spawned, readLog, flags, child, exit_signal, storeMade, history, pump, norm,
                 sent, sub, cursor, replayLen, errs, nseen, shown, sys>>

\* The normalizer's subscription yields its next message.
NormRecv ==
  /\ nsub = "open"
  /\ ncursor < Len(history)
  /\ nseen' = Append(nseen, StreamItem(history, ncursor))
  /\ ncursor' = ncursor + 1
  /\ UNCHANGED <<pc, cli, spawned, readLog, flags, child, exit_signal, storeMade, history, pump, norm,
                 sent, sub, cursor, replayLen, errs, nsub, nreplayLen, shown, sys>>

\* --------------------------------------------------------------- the child
\* The child exits and the executor sends on the one-shot channel.
ProcessExit ==
  /\ exit_signal = "pending"
  /\ exit_signal' = "sent"
  /\ UNCHANGED <<pc, cli, spawned, readLog, flags, child, storeMade, history, pump, norm, sent, sub,
                 cursor, replayLen, errs, nview, shown, sys>>

\* The executor drops the sender without sending.
SenderDropped ==
  /\ exit_signal = "pending"
  /\ exit_signal' = "closed"
  /\ UNCHANGED <<pc, cli, spawned, readLog, flags, child, storeMade, history, pump, norm, sent, sub,
                 cursor, replayLen, errs, nview, shown, sys>>

\* ---------------------------------------------------------- main's result
\* The exit code of the process where main has returned: 0 for Ok(()), 1
\* for an error; -1 while main runs.
ExitCode ==
  CASE pc \in {"done", "usage", "listed", "checked"} -> 0
    [] pc \in {"failed", "bad_args", "bad_agent", "no_agent"} -> 1
    [] OTHER -> -1

\* ------------------------------------------------------------ specification
Setup ==
  SpawnOk \/ SpawnFail \/ WireStdout \/ WireStderr \/ StartNormalizer \/ Subscribe

Next ==
  \/ SpawnOk
  \/ SpawnFail
  \/ WireStdout
  \/ WireStderr
  \/ StartNormalizer
  \/ Subscribe
  \/ ExitBranch
  \/ RecvMsg
  \/ RecvErr
  \/ RecvEnd
  \/ \E ch \in Channels : PumpOk(ch)
  \/ \E ch \in Channels : PumpErr(ch)
  \/ \E ch \in Channels : PumpEof(ch)
  \/ NormAppend
  \/ ProcessExit
  \/ SenderDropped

\* main, the pumps, the normalizer's appends and the child.
Spec == Init /\ [][Next]_vars

\* The store with its producers and its two subscribers: main's loop and the
\* normalizer's own subscription, for a child whose exit is not notified
\* during the run and a subscription that yields no error item.
SubNext ==
  \/ SpawnOk
  \/ SpawnFail
  \/ WireStdout
  \/ WireStderr
  \/ StartNormalizer
  \/ Subscribe
  \/ ExitBranch
  \/ RecvMsg
  \/ RecvEnd
  \/ \E ch \in Channels : PumpOk(ch)
  \/ \E ch \in Channels : PumpErr(ch)
  \/ \E ch \in Channels : PumpEof(ch)
  \/ NormAppend
  \/ NormSubscribe
  \/ NormRecv

SubSpec == Init /\ [][SubNext]_vars

\* The two pump tasks from the spawn on, every chunk they read recorded.
PumpNext ==
  \/ SpawnOk
  \/ SpawnFail
  \/ WireStdout
  \/ WireStderr
  \/ \E ch \in Channels : PumpRead(ch)
  \/ \E ch \in Channels : PumpFail(ch)
  \/ \E ch \in Channels : PumpEof(ch)

PumpSpec == Init /\ [][PumpNext]_vars

\* ------------------------------------------------- the run under any flags
\* main before step 4 of a run with any of the four settings of --raw and
\* --pretty.
FlagInit ==
  /\ args = <<"p1">>
  /\ parsed = [prompt |-> "p1", agent_type_str |-> "None",
               follow_up_session_id |-> "None", reset_to_message_id |-> "None"]
  /\ spawned = "none"
  /\ readLog = [ch \in Channels |-> <<>>]
  /\ pc = "spawn"
  /\ include_raw_logs \in BOOLEAN
  /\ pretty \in BOOLEAN
  /\ hasStdout = FALSE
  /\ hasStderr = FALSE
  /\ exit_signal = "none"
  /\ storeMade = FALSE
  /\ history = <<>>
  /\ pump = [ch \in Channels |-> "unstarted"]
  /\ norm = "unstarted"
  /\ sent = [p \in Producers |-> 0]
  /\ sub = "none"
  /\ cursor = 0
  /\ replayLen = 0
  /\ errs = 0
  /\ nsub = "none"
  /\ ncursor = 0
  /\ nreplayLen = 0
  /\ nseen = <<>>
  /\ processed = <<>>
  /\ out = <<>>
  /\ sys = <<>>

\* main, the pumps, the normalizer's appends and the child's exit, for
\* channels that are read without error.
FlagNext ==
  \/ SpawnOk
  \/ WireStdout
  \/ WireStderr
  \/ StartNormalizer
  \/ Subscribe
  \/ ExitBranch
  \/ RecvMsg
  \/ RecvErr
  \/ RecvEnd
  \/ \E ch \in Channels : PumpOk(ch)
  \/ \E ch \in Channels : PumpEof(ch)
  \/ NormAppend
  \/ ProcessExit

FlagSpec == FlagInit /\ [][FlagNext]_vars

\* ------------------------------------------------------- the command line
\* The arguments drawn that start with no dash: two prompts, the word help
\* and the name of an agent.
Positionals == {"p1", "p2", "help", "codex"}

\* The arguments drawn: the long form of every option, one short form, an
\* option main does not know, and the positionals.
Tokens ==
  {"--help", "--list-agents", "--check-installed", "--agent", "-a", "--follow-up",
   "--reset-to", "--raw", "--pretty", "--bogus"} \cup Positionals

\* arg.starts_with('-').
StartsWithDash(arg) == arg \notin Positionals

\* s.to_uppercase() of the arguments drawn that hold a lower-case letter.
ToUppercase(str) ==
  CASE str = "codex" -> "CODEX"
    [] str = "p1" -> "P1"
    [] str = "p2" -> "P2"
    [] str = "help" -> "HELP"
    [] str = "-a" -> "-A"
    [] str \in Tokens \ Positionals -> "--OPTION"
    [] OTHER -> str

\* The names BaseCodingAgent::from_str accepts.
BaseCodingAgents ==
  {"CLAUDE_CODE", "CURSOR_AGENT", "CODEX", "OPENCODE", "GEMINI", "QWEN_CODE", "AMP",
   "COPILOT", "DROID"}

\* main's locals before the loop over the arguments.
Unparsed ==
  [outcome |-> "run", prompt |-> "", agent_type_str |-> "None",
   follow_up_session_id |-> "None", reset_to_message_id |-> "None",
   include_raw_logs |-> FALSE, pretty |-> FALSE]

\* (variant: a positional is taken as the prompt only while there is none)
TakePromptFirst(old, arg) == IF old = "" THEN arg ELSE old

\* The prompt after a positional argument: prompt = arg.to_string().
TakePrompt(old, arg) == arg

\* (variant: a missing prompt is an error)
NoPromptFails == "bad_args"

\* The outcome of main when the prompt is empty after the loop:
\* print_usage() and return Ok(()).
NoPrompt == "usage"

\* The `while i < args.len()` loop from argument i on (a holds the
\* arguments after the program name, so a[i] is args[i]), and the test of
\* the prompt after it.
RECURSIVE ParseFrom(_, _, _)
ParseFrom(a, i, acc) ==
  IF i > Len(a)
  THEN IF acc.prompt = "" THEN [acc EXCEPT !.outcome = NoPrompt] ELSE acc
  ELSE CASE a[i] \in {"--help", "-h"} -> [acc EXCEPT !.outcome = "usage"]
         [] a[i] \in {"--list-agents", "-l"} -> [acc EXCEPT !.outcome = "listed"]
         [] a[i] \in {"--check-installed", "-c"} -> [acc EXCEPT !.outcome = "checked"]
         [] a[i] \in {"--agent", "-a"} ->
              IF i + 1 <= Len(a)
              THEN ParseFrom(a, i + 2, [acc EXCEPT !.agent_type_str = a[i + 1]])
              ELSE [acc EXCEPT !.outcome = "bad_args"]
         [] a[i] \in {"--follow-up", "-f"} ->
              IF i + 1 <= Len(a)
              THEN ParseFrom(a, i + 2, [acc EXCEPT !.follow_up_session_id = a[i + 1]])
              ELSE [acc EXCEPT !.outcome = "bad_args"]
         [] a[i] = "--reset-to" ->
              IF i + 1 <= Len(a)
              THEN ParseFrom(a, i + 2, [acc EXCEPT !.reset_to_message_id = a[i + 1]])
              ELSE [acc EXCEPT !.outcome = "bad_args"]
         [] a[i] = "--raw" -> ParseFrom(a, i + 1, [acc EXCEPT !.include_raw_logs = TRUE])
         [] a[i] = "--pretty" -> ParseFrom(a, i + 1, [acc EXCEPT !.pretty = TRUE])
         [] OTHER ->
              IF StartsWithDash(a[i])
              THEN [acc EXCEPT !.outcome = "bad_args"]
              ELSE ParseFrom(a, i + 1, [acc EXCEPT !.prompt = TakePrompt(@, a[i])])

\* main from its first line to the test of the prompt: no argument at all,
\* and `code-marshal help` and its like, print the usage and return Ok(());
\* any other command line goes through the loop.
ParseCommandLine(a) ==
  IF Len(a) = 0 \/ (Len(a) = 1 /\ a[1] \in {"help", "--help", "-h"})
  THEN [Unparsed EXCEPT !.outcome = "usage"]
  ELSE ParseFrom(a, 1, Unparsed)

\* main is started with a command line of up to MaxArgs arguments.
ArgInit ==
  /\ args \in UNION {[1..k -> Tokens] : k \in 0..MaxArgs}
  /\ parsed = [prompt |-> "", agent_type_str |-> "None",
               follow_up_session_id |-> "None", reset_to_message_id |-> "None"]
  /\ spawned = "none"
  /\ readLog = [ch \in Channels |-> <<>>]
  /\ pc = "parse"
  /\ include_raw_logs = FALSE
  /\ pretty = FALSE
  /\ hasStdout = FALSE
  /\ hasStderr = FALSE
  /\ exit_signal = "none"
  /\ storeMade = FALSE
  /\ history = <<>>
  /\ pump = [ch \in Channels |-> "unstarted"]
  /\ norm = "unstarted"
  /\ sent = [p \in Producers |-> 0]
  /\ sub = "none"
  /\ cursor = 0
  /\ replayLen = 0
  /\ errs = 0
  /\ nsub = "none"
  /\ ncursor = 0
  /\ nreplayLen = 0
  /\ nseen = <<>>
  /\ processed = <<>>
  /\ out = <<>>
  /\ sys = <<>>

\* main parses its arguments: it returns Ok(()) after the usage, the list of
\* agents or the check of the installed ones, returns an error for an
\* argument it does not accept, and goes on to the agent otherwise.
ParseArgs ==
  /\ pc = "parse"
  /\ LET r == ParseCommandLine(args) IN
       /\ parsed' = [prompt |-> r.prompt, agent_type_str |-> r.agent_type_str,
                     follow_up_session_id |-> r.follow_up_session_id,
                     reset_to_message_id |-> r.reset_to_message_id]
       /\ include_raw_logs' = r.include_raw_logs
       /\ pretty' = r.pretty
       /\ pc' = IF r.outcome = "run" THEN "select" ELSE r.outcome
  /\ UNCHANGED <<args, spawned, readLog, child, exit_signal, storeMade, history, pump, norm,
                 sent, sub, cursor, replayLen, errs, nview, shown, sys>>

\* "Determine agent type": the name given with --agent is looked up in upper
\* case; without --agent the first installed agent is taken, if there is one.
SelectAgent ==
  /\ pc = "select"
  /\ IF parsed.agent_type_str # "None"
     THEN pc' = IF ToUppercase(parsed.agent_type_str) \in BaseCodingAgents
                THEN "create" ELSE "bad_agent"
     ELSE \E installed \in BOOLEAN : pc' = IF installed THEN "create" ELSE "no_agent"
  /\ UNCHANGED <<cli, spawned, readLog, flags, child, exit_signal, storeMade, history, pump,
                 norm, sent, sub, cursor, replayLen, errs, nview, shown, sys>>

\* Steps 1 to 3: create_agent(agent_type)? and std::env::current_dir()?
\* succeed, or one of them returns its error from main.
CreateAgent ==
  /\ pc = "create"
  /\ \E ok \in BOOLEAN : pc' = IF ok THEN "spawn" ELSE "failed"
  /\ UNCHANGED <<cli, spawned, readLog, flags, child, exit_signal, storeMade, history, pump,
                 norm, sent, sub, cursor, replayLen, errs, nview, shown, sys>>

\* main from its start to the spawn, and on to its return for a child that
\* writes nothing and a normalizer that appends nothing.
ArgNext ==
  \/ ParseArgs
  \/ SelectAgent
  \/ CreateAgent
  \/ SpawnOk
  \/ SpawnFail
  \/ WireStdout
  \/ WireStderr
  \/ StartNormalizer
  \/ Subscribe
  \/ ExitBranch
  \/ RecvEnd
  \/ ProcessExit

ArgSpec == ArgInit /\ [][ArgNext]_vars

\* ------------------------------------------------- the display of a store
\* The values of patch entries drawn: absent, an assistant entry whose
\* content ends with a line feed, an entry of a category with no arm of its
\* own, a Stdout payload ending with a blank, a Diff, and a value tagged with
\* a type that PatchValue does not have.
DisplayValues ==
  {NoValue,
   PatchValue("NORMALIZED_ENTRY", "AssistantMessage", <<72, 10>>),
   PatchValue("NORMALIZED_ENTRY", "UserMessage", <<72>>),
   PatchValue("STDOUT", "", <<72, 32>>),
   PatchValue("DIFF", "", <<>>),
   PatchValue("OTHER", "", <<>>)}

\* The patch entries drawn: every operation of json_patch that PatchOp has
\* and one it has not (move) with an assistant entry, and every value with add.
DisplayEntries ==
  {PatchEntry(op, "/entries/0", PatchValue("NORMALIZED_ENTRY", "AssistantMessage", <<72, 10>>)) :
     op \in {"add", "replace", "remove", "move"}}
  \cup {PatchEntry("add", "/entries/1", v) : v \in DisplayValues}

\* The patches drawn: up to MaxEntries entries.
DisplayPatches == UNION {[1..k -> DisplayEntries] : k \in 0..MaxEntries}

\* The n-th message of the normalizer in the store displayed: any variant
\* of LogMsg that is not raw, a JsonPatch with any of the patches.
DisplayNormMsgs(n) ==
  {LogMsg(k, "norm", n, <<>>) : k \in {"SessionId", "MessageId", "Ready", "Finished"}}
  \cup {JsonPatchMsg("norm", n, q) : q \in DisplayPatches}

\* The first message of a pump in the store displayed.
DisplayRawMsgs == {LogMsg(ChannelKind(ch), ch, 1, <<104, 10>>) : ch \in Channels}

\* main at step 7 with any of the four settings of --raw and --pretty, after
\* a spawn that gave both pipes and an exit notification: the pumps have
\* stopped and the store holds two messages, the first a raw message, a
\* SessionId or a JsonPatch, the second any message.
DisplayInit ==
  /\ args = <<"p1">>
  /\ parsed = [prompt |-> "p1", agent_type_str |-> "None",
               follow_up_session_id |-> "None", reset_to_message_id |-> "None"]
  /\ spawned = "ok"
  /\ readLog = [ch \in Channels |-> <<>>]
  /\ pc = "subscribe"
  /\ include_raw_logs \in BOOLEAN
  /\ pretty \in BOOLEAN
  /\ hasStdout = TRUE
  /\ hasStderr = TRUE
  /\ exit_signal = "pending"
  /\ storeMade = TRUE
  /\ \E m1 \in {LogMsg("Stdout", "stdout", 1, <<104, 10>>), LogMsg("SessionId", "norm", 1, <<>>),
                 JsonPatchMsg("norm", 1, NormPatch)} :
       \E m2 \in DisplayNormMsgs(IF m1.src = "norm" THEN 2 ELSE 1)
                   \cup {m \in DisplayRawMsgs : m.src # m1.src} :
         history = <<m1, m2>>
  /\ pump = [ch \in Channels |-> "stopped"]
  /\ norm = "running"
  /\ sent = [p \in Producers |-> Cardinality({i \in DOMAIN history : history[i].src = p})]
  /\ sub = "none"
  /\ cursor = 0
  /\ replayLen = 0
  /\ errs = 0
  /\ nsub = "none"
  /\ ncursor = 0
  /\ nreplayLen = 0
  /\ nseen = <<>>
  /\ processed = <<>>
  /\ out = <<>>
  /\ sys = <<>>

\* main subscribes and consumes the store.
DisplayNext == Subscribe \/ RecvMsg

DisplaySpec == DisplayInit /\ [][DisplayNext]_vars

\* The scheduling of main: the runtime runs main's task whenever it can
\* take a step of its set-up, and select! polls its branches in random order,
\* so a branch that stays ready is not passed over forever.
FairSpec == Spec /\ WF_vars(Setup) /\ WF_vars(ExitBranch)

\* The run of a child whose exit is never notified, on a store whose
\* subscription does not end: the executor gives no receiver, or keeps the
\* sender without sending, or drops it.
QuietNext ==
  \/ SpawnOk
  \/ SpawnFail
  \/ WireStdout
  \/ WireStderr
  \/ StartNormalizer
  \/ Subscribe
  \/ ExitBranch
  \/ RecvMsg
  \/ RecvErr
  \/ \E ch \in Channels : PumpOk(ch)
  \/ \E ch \in Channels : PumpErr(ch)
  \/ \E ch \in Channels : PumpEof(ch)
  \/ NormAppend
  \/ SenderDropped

\* That run under the scheduling of main: neither branch of select! is
\* passed over forever while it stays ready, so an item the subscription
\* holds is delivered.
QuietFairSpec ==
  /\ Init
  /\ [][QuietNext]_vars
  /\ WF_vars(Setup)
  /\ WF_vars(ExitBranch)
  /\ WF_vars(RecvMsg)


\* ------------------------------------------------------------------ claims
IsFinished(m) == m.kind = "Finished"

\* The positions of history h that hold a message of producer p.
From(h, p) == SelectSeq(h, LAMBDA m : m.src = p)

Count(q, x) == Cardinality({i \in DOMAIN q : q[i] = x})

Printed(line) == \E i \in DOMAIN sys : sys[i] = line

FinishedIn(h) == {i \in DOMAIN h : IsFinished(h[i])}

\* C2: a step in which the exit branch wins (it prints "Child process
\* exited") starts in the loop, appends main's Finished to the store and
\* nothing else, whether or not the store already holds a Finished, and
\* leaves the loop in that same step; once it has won, main is out of the
\* loop for good, so the exit notification is never awaited again.
C2_ExitBackstopAppend ==
  [][ /\ (~Printed("ChildExited") /\ Printed("ChildExited")') =>
           /\ pc = "loop"
           /\ pc' = "done"
           /\ history' = Append(history, MainFinished)
           /\ Len(From(history', "main")) = Len(From(history, "main")) + 1
      /\ Printed("ChildExited") =>
           /\ pc = "done"
           /\ pc' = "done"
           /\ Count(sys', "ChildExited") = 1 ]_vars

\* The exit branch has won while the store held no Finished: the only
\* Finished of the store is the one main appended.
C2_Witness ==
  /\ Printed("ChildExited")
  /\ pc = "done"
  /\ Cardinality(FinishedIn(history)) = 1
  /\ \A i \in FinishedIn(history) : history[i].src = "main"

\* C3: however many Finished messages the store holds, main leaves the loop
\* at most once, and a Finished it receives is the last message it processes:
\* no message follows it and main is Terminated.
C3_TerminationIdempotence ==
  /\ Count(sys, "Concluded") <= 1
  /\ \A i \in DOMAIN processed :
       IsFinished(processed[i]) => (i = Len(processed) /\ pc = "done")
  /\ pc = "done" <=> Printed("Concluded")

\* Two Finished messages were appended by producers other than main, and
\* main has received the first of them.
C3_Witness ==
  /\ Cardinality({i \in FinishedIn(history) : history[i].src # "main"}) >= 2
  /\ Printed("FinishedReceived")
  /\ pc = "done"

\* One of the three ways out of Streaming has happened.
TerminalEvent ==
  \/ Printed("ChildExited")
  \/ \E i \in DOMAIN processed : IsFinished(processed[i])
  \/ sub = "ended"

\* C4: once main is Terminated (the exit branch won, a Finished was consumed,
\* or the stream ended), it consumes and displays nothing more: what it has
\* processed and printed and its place in the subscription never change
\* again, whatever is appended to the store afterwards.
C4_NoConsumptionAfterTerminated ==
  [][ (pc = "done" \/ TerminalEvent) =>
        /\ processed' = processed
        /\ out' = out
        /\ sys' = sys
        /\ cursor' = cursor
        /\ pc' = "done" ]_vars

\* A pump or the normalizer has appended after main's own Finished, that is
\* after main was Terminated.
C4_Witness ==
  /\ pc = "done"
  /\ \E i, j \in DOMAIN history :
       /\ i < j
       /\ history[i].src = "main"
       /\ history[j].src # "main"

Min(a, b) == IF a <= b THEN a ELSE b

\* C5: when main's subscription exists, the normalizer and the pump of every
\* pipe of the child have been started; the messages appended before the
\* subscription was created (the first replayLen of the store) are what the
\* subscription yields first, in append order, and whatever it yields after
\* them was appended later.
C5_ReplayCorrectness ==
  sub # "none" =>
    /\ norm = "running"
    /\ hasStdout => pump["stdout"] # "unstarted"
    /\ hasStderr => pump["stderr"] # "unstarted"
    /\ replayLen <= Len(history)
    /\ \A i \in 1..Min(Len(processed), replayLen) : processed[i] = history[i]
    /\ \A i \in DOMAIN processed :
         i > replayLen => \E j \in DOMAIN history : j > replayLen /\ history[j] = processed[i]

\* The subscription has yielded a message appended before its creation and
\* then one appended after it.
C5_Witness ==
  /\ replayLen >= 1
  /\ Len(processed) > replayLen
  /\ processed[1].src # "main"

\* C6: across the replay and the live part, every message of the store up to
\* main's place in its subscription was delivered to main exactly once, and no
\* message beyond it was delivered: nothing is lost or repeated, whether the
\* message was appended just before or just after the subscription was
\* created.
C6_NoGapNoDuplicate ==
  sub # "none" =>
    \A i \in DOMAIN history :
      Count(processed, history[i]) = IF i <= cursor THEN 1 ELSE 0

\* The last message appended before the subscription and the first appended
\* after it have both been delivered.
C6_Witness ==
  /\ sub = "open"
  /\ replayLen >= 1
  /\ cursor = replayLen + 1
  /\ Count(processed, history[replayLen]) = 1
  /\ Count(processed, history[replayLen + 1]) = 1

\* C7: main's subscription and the normalizer's, whenever each was created,
\* are delivered the same messages in the same order: the shorter view is a
\* prefix of the longer, and no two messages are seen in opposite orders.
C7_MultiSubscriberConsistency ==
  /\ \A i \in 1..Min(Len(processed), Len(nseen)) : processed[i] = nseen[i]
  /\ \A i, j \in DOMAIN processed : \A k, l \in DOMAIN nseen :
       (i < j /\ processed[i] = nseen[k] /\ processed[j] = nseen[l]) => k < l

\* The two subscriptions were created at different points of the store's
\* history and each has been delivered two messages.
C7_Witness ==
  /\ sub # "none"
  /\ nsub = "open"
  /\ replayLen # nreplayLen
  /\ Len(processed) >= 2
  /\ Len(nseen) >= 2

\* C8: every append made by a producer is in the store exactly once, and the
\* appends of one producer are in the store in the order it made them.
C8_ConcurrentAppendSafety ==
  \A p \in Producers :
    /\ Len(From(history, p)) = sent[p]
    /\ \A i \in DOMAIN From(history, p) : From(history, p)[i].n = i

\* Two appends of one producer with an append of another between them, and
\* main's own Finished in the store.
C8_Witness ==
  /\ sent["main"] = 1
  /\ \E i, j, k \in DOMAIN history :
       /\ i < j /\ j < k
       /\ history[i].src = history[k].src
       /\ history[j].src # history[i].src

\* C9: a step in which the subscription yields an error item starts and ends
\* in the loop and changes nothing else: nothing is printed, nothing is
\* appended, no message is consumed or skipped.
C9_TransientDeliveryError ==
  [][ errs' # errs =>
        /\ pc = "loop"
        /\ pc' = "loop"
        /\ UNCHANGED <<history, sent, sub, cursor, processed, out, sys>> ]_vars

\* After two delivery errors in the loop main has gone on to process a
\* message and is still streaming.
C9_Witness ==
  /\ errs >= 2
  /\ pc = "loop"
  /\ Len(processed) >= 1
  /\ cursor < Len(history)

\* C10: a step in which main's subscription ends starts in the loop, appends
\* main's Finished to the store and nothing else, and ends Terminated.
C10_EndOfStream ==
  [][ (sub = "open" /\ sub' = "ended") =>
        /\ pc = "loop"
        /\ pc' = "done"
        /\ history' = Append(history, MainFinished)
        /\ Len(From(history', "main")) = Len(From(history, "main")) + 1 ]_vars

\* The stream has ended and main's Finished is the one message main appended.
C10_Witness ==
  /\ sub = "ended"
  /\ pc = "done"
  /\ Len(From(history, "main")) = 1
  /\ ~Printed("ChildExited")

\* The texts a pump is to push for the chunks of a log: the decoded chunks
\* that are not empty, in read order.
Decoded(log) ==
  SelectSeq([i \in DOMAIN log |-> FromUtf8Lossy(log[i])], LAMBDA t : t # <<>>)

\* The messages the pump of ch has pushed for chunks.
ChunkMsgs(h, ch) == SelectSeq(From(h, ch), LAMBDA m : m.text # ReadErrorText(ch))

PumpMapped(h, log) ==
  /\ \A ch \in Channels :
       /\ Len(ChunkMsgs(h, ch)) = Len(Decoded(log[ch]))
       /\ \A i \in DOMAIN ChunkMsgs(h, ch) :
            /\ ChunkMsgs(h, ch)[i].kind = ChannelKind(ch)
            /\ ChunkMsgs(h, ch)[i].text = Decoded(log[ch])[i]
  /\ \A i \in DOMAIN h : IsRaw(h[i]) => h[i].text # <<>>

\* C11: after every step, the messages a pump has pushed for chunks are, in
\* read order, one message of its channel's variant per chunk it has read
\* whose decoded text is not empty, with that text; no Stdout or Stderr
\* message of the store has an empty text; and a pump that has stopped reads
\* and pushes nothing more.
C11_PumpMapping ==
  [][ /\ PumpMapped(history', readLog')
      /\ \A ch \in Channels :
           pump[ch] = "stopped" =>
             /\ pump'[ch] = "stopped"
             /\ readLog'[ch] = readLog[ch]
             /\ From(history', ch) = From(history, ch) ]_vars

\* A pump has read an empty chunk and a chunk that is not empty, has pushed
\* one message, and has stopped at the end of its channel.
C11_Witness ==
  \E ch \in Channels :
    /\ pump[ch] = "stopped"
    /\ Len(readLog[ch]) = 2
    /\ \E i \in DOMAIN readLog[ch] : readLog[ch][i] = <<>>
    /\ Len(From(history, ch)) = 1
    /\ From(history, ch)[1].text # ReadErrorText(ch)

\* The step appends the read-error message of channel ch.
ReadErrorAppended(ch) ==
  /\ Len(history') = Len(history) + 1
  /\ history'[Len(history')].src = ch
  /\ history'[Len(history')].text = ReadErrorText(ch)

\* C12: a step in which a pump reports a read error appends that one Stderr
\* message and stops the pump, leaves the other pump as it was and leaves
\* main where it was; a stopped pump stays stopped and pushes nothing more.
C12_PumpReadError ==
  [][ \A ch \in Channels :
        /\ ReadErrorAppended(ch) =>
             /\ history' = Append(history, LogMsg("Stderr", ch, sent[ch] + 1, ReadErrorText(ch)))
             /\ pump[ch] = "reading"
             /\ pump'[ch] = "stopped"
             /\ \A o \in Channels \ {ch} : pump'[o] = pump[o]
             /\ pc' = pc
        /\ pump[ch] = "stopped" =>
             /\ pump'[ch] = "stopped"
             /\ From(history', ch) = From(history, ch) ]_vars

\* The stdout pump has stopped on a read error while main is streaming, and
\* the stderr pump has pushed a chunk after it and is still reading.
C12_Witness ==
  /\ pc = "loop"
  /\ pump["stdout"] = "stopped"
  /\ pump["stderr"] = "reading"
  /\ \E i, j \in DOMAIN history :
       /\ i < j
       /\ history[i].src = "stdout"
       /\ history[i].text = ReadErrorText("stdout")
       /\ history[j].src = "stderr"

\* C13: when the spawn has failed, main has returned an error from Spawning:
\* no store, no pump, no normalizer, no subscription, no message, no line of
\* the streaming steps.
C13_SpawnFailureFatal ==
  spawned = "err" =>
    /\ pc = "failed"
    /\ ExitCode = 1
    /\ ~storeMade
    /\ \A ch \in Channels : pump[ch] = "unstarted"
    /\ norm = "unstarted"
    /\ sub = "none" /\ nsub = "none"
    /\ history = <<>>
    /\ processed = <<>> /\ out = <<>> /\ sys = <<>>

C13_Witness == spawned = "err" /\ pc = "failed"

\* The lines of the one-entry patches of the entries of patch, in entry order.
RECURSIVE LinesEntryByEntry(_)
LinesEntryByEntry(patch) ==
  IF patch = <<>> THEN <<>>
  ELSE PrettyLines(JsonPatchMsg("norm", 1, <<Head(patch)>>)) \o LinesEntryByEntry(Tail(patch))

\* The message of a step of main that consumes one.
Consumed == processed'[Len(processed')]

\* The raw flag decides for the message consumed in this step.
RawDecides ==
  /\ (Consumed.kind \in {"Stdout", "Stderr"} /\ ~include_raw_logs) => out' = out
  /\ (Consumed.kind \in {"Stdout", "Stderr"} /\ include_raw_logs) => Len(out') > Len(out)

\* A JsonPatch without entries consumed in pretty mode.
EmptyPatchPretty == pretty /\ Consumed.kind = "JsonPatch" /\ Consumed.patch = <<>>

\* C14 as stated: a consumed Stdout or Stderr message prints nothing without
\* --raw and prints with --raw, in both output modes, and a consumed message
\* of any other variant prints, whatever the raw flag is.
C14_RawSuppression ==
  [][ processed' # processed =>
        /\ RawDecides
        /\ Consumed.kind \notin {"Stdout", "Stderr"} => Len(out') > Len(out) ]_vars

\* C14 amended: a consumed Stdout or Stderr message prints nothing without
\* --raw and prints with --raw, in both output modes; a consumed message of
\* any other variant prints, whatever the raw flag is, except a JsonPatch
\* without entries in pretty mode, which prints nothing.
C14_RawSuppressionButEmptyPatch ==
  [][ processed' # processed =>
        /\ RawDecides
        /\ (Consumed.kind \notin {"Stdout", "Stderr"} /\ ~EmptyPatchPretty)
             => Len(out') > Len(out)
        /\ EmptyPatchPretty => out' = out ]_vars

\* Without --raw main has consumed a Stdout message and then a message that
\* is not raw, and has printed for the second only.
C14_Witness ==
  /\ ~include_raw_logs
  /\ Len(processed) = 2
  /\ processed[1].kind = "Stdout"
  /\ processed[2].kind \notin {"Stdout", "Stderr"}
  /\ Len(out) = Len(EventLines(processed[2]))
  /\ out # <<>>

\* What per-entry projection says of the JsonPatch consumed in this step: the
\* output is the concatenation, in entry order, of the output of each entry
\* taken alone, which is one line carrying the entry's operation label, and
\* the entry's path exactly when its value is a Diff or absent.
PerEntry ==
  LET patch == Consumed.patch
      new == SubSeq(out', Len(out) + 1, Len(out'))
  IN /\ out' = out \o LinesEntryByEntry(patch)
     /\ Len(new) = Len(patch)
     /\ \A i \in DOMAIN patch :
          /\ new[i].kind = patch[i].op
          /\ new[i].path = IF patch[i].value.type \in {"DIFF", "none"} THEN patch[i].path ELSE ""

RECURSIVE PositionalsFrom(_, _)
PositionalsFrom(a, i) ==
  IF i > Len(a) THEN <<>>
  ELSE IF a[i] \in {"--agent", "-a", "--follow-up", "-f", "--reset-to"}
       THEN PositionalsFrom(a, i + 2)
       ELSE IF StartsWithDash(a[i]) THEN PositionalsFrom(a, i + 1)
            ELSE <<a[i]>> \o PositionalsFrom(a, i + 1)

\* main has accepted its arguments and goes on with the prompt.
Accepted == pc \in {"select", "create", "spawn", "wire_stdout", "failed", "bad_agent", "no_agent"}

\* C16: for every argument list the parser accepts, the prompt is the first
\* positional argument, whatever positionals follow it.
C16_PromptIsFirstPositional ==
  Accepted => parsed.prompt = PositionalsFrom(args, 1)[1]

\* An argument list is malformed: an option main does not know, a
\* value-taking option as the last argument, an agent name that is none, or
\* no prompt, in a list that does not ask for the usage or the agents.
RECURSIVE MalformedFrom(_, _)
MalformedFrom(a, i) ==
  IF i > Len(a) THEN FALSE
  ELSE IF a[i] \in {"--agent", "-a", "--follow-up", "-f", "--reset-to"}
       THEN \/ i = Len(a)
            \/ a[i] \in {"--agent", "-a"} /\ ToUppercase(a[i + 1]) \notin BaseCodingAgents
            \/ MalformedFrom(a, i + 2)
       ELSE \/ a[i] \in {"--bogus"}
            \/ MalformedFrom(a, i + 1)

\* The argument list asks for the usage, the list of agents or the check of
\* the installed ones.
AsksForInfo(a) ==
  \E i \in DOMAIN a :
    a[i] \in {"--help", "-h", "--list-agents", "-l", "--check-installed", "-c", "help"}

Malformed(a) == ~AsksForInfo(a) /\ (MalformedFrom(a, 1) \/ PositionalsFrom(a, 1) = <<>>)

\* C17 as stated: a run with a malformed argument list ends with a non-zero
\* exit code as soon as main has met the fault and never spawns; a run that
\* reaches Terminated ends with exit code 0.
C17_ArgumentFailure ==
  /\ Malformed(args) =>
       /\ spawned = "none"
       /\ pc \in {"parse", "select"} \/ ExitCode = 1
  /\ pc = "done" => ExitCode = 0

\* What a reader of the arguments meets first, from argument i on: an option
\* that asks for the usage, the list of agents or the check ("info"), an
\* option main does not know or a value-taking option without value
\* ("fault"), or the end of the list.
RECURSIVE MeetsFirst(_, _)
MeetsFirst(a, i) ==
  IF i > Len(a) THEN "end"
  ELSE IF a[i] \in {"--help", "-h", "--list-agents", "-l", "--check-installed", "-c"}
       THEN "info"
       ELSE IF a[i] \in {"--agent", "-a", "--follow-up", "-f", "--reset-to"}
            THEN IF i = Len(a) THEN "fault" ELSE MeetsFirst(a, i + 2)
            ELSE IF a[i] \in {"--raw", "--pretty"} \/ ~StartsWithDash(a[i])
                 THEN MeetsFirst(a, i + 1)
                 ELSE "fault"

\* The values given with --agent or -a, in order.
RECURSIVE AgentNamesFrom(_, _)
AgentNamesFrom(a, i) ==
  IF i >= Len(a) THEN <<>>
  ELSE IF a[i] \in {"--agent", "-a"} THEN <<a[i + 1]>> \o AgentNamesFrom(a, i + 2)
       ELSE IF a[i] \in {"--follow-up", "-f", "--reset-to"} THEN AgentNamesFrom(a, i + 2)
            ELSE AgentNamesFrom(a, i + 1)

\* The argument list names an agent, and the last name it gives is none.
UnknownAgent(a) ==
  LET names == AgentNamesFrom(a, 1) IN
    names # <<>> /\ ToUppercase(names[Len(names)]) \notin BaseCodingAgents

\* C17 amended: a run whose arguments hold an unknown option or a
\* value-taking option without value, before any option asking for the
\* usage, the agents or the check, ends with a non-zero exit code; so does a
\* run whose arguments are read to the end, hold a prompt and name an unknown
\* agent; a run whose arguments are read to the end and hold no prompt prints
\* the usage and ends with exit code 0; none of the three spawns a process;
\* and a run that reaches Terminated ends with exit code 0.
C17_ArgumentFailureButNoPrompt ==
  /\ MeetsFirst(args, 1) = "fault" =>
       /\ spawned = "none"
       /\ pc = "parse" \/ (pc = "bad_args" /\ ExitCode = 1)
  /\ (MeetsFirst(args, 1) = "end" /\ PositionalsFrom(args, 1) # <<>> /\ UnknownAgent(args)) =>
       /\ spawned = "none"
       /\ pc \in {"parse", "select"} \/ (pc = "bad_agent" /\ ExitCode = 1)
  /\ (MeetsFirst(args, 1) = "end" /\ PositionalsFrom(args, 1) = <<>>) =>
       /\ spawned = "none"
       /\ pc = "parse" \/ (pc = "usage" /\ ExitCode = 0)
  /\ pc = "done" => (ExitCode = 0 /\ spawned = "ok")

\* main has returned an error for a command line with a prompt and the name
\* of no agent, and has spawned nothing.
C17_Witness ==
  /\ pc = "bad_agent"
  /\ PositionalsFrom(args, 1) # <<>>
  /\ UnknownAgent(args)
  /\ spawned = "none"

\* main appends a Finished in this step.
MainAppendsFinished ==
  /\ Len(history') = Len(history) + 1
  /\ history'[Len(history')].src = "main"
  /\ history'[Len(history')].kind = "Finished"

\* One of the three causes holds in this step: the exit notification has
\* fired, main receives Finished from its subscription, or the subscription
\* ends.
CauseOfTermination ==
  \/ exit_signal = "sent"
  \/ processed' # processed /\ Consumed.kind = "Finished"
  \/ sub = "open" /\ sub' = "ended"

\* C18: whatever the spawn returned, main leaves its loop only in a step in
\* which the exit notification has fired, Finished is received or the
\* subscription ends, and appends a Finished only in such a step.
C18_CausesOfTermination ==
  [][ ((pc = "loop" /\ pc' # "loop") \/ MainAppendsFinished) => CauseOfTermination ]_vars

\* C20: whenever main is Terminated the store holds a Finished, and main has
\* appended at most one message, a Finished, over the run.
C20_TerminalMarker ==
  /\ pc = "done" => FinishedIn(history) # {}
  /\ sent["main"] <= 1
  /\ Len(From(history, "main")) <= 1
  /\ \A i \in DOMAIN history : history[i].src = "main" => history[i].kind = "Finished"

\* main is Terminated after the normalizer appended a message and no
\* Finished: the one Finished of the store is main's.
C20_Witness ==
  /\ pc = "done"
  /\ From(history, "norm") # <<>>
  /\ \A i \in FinishedIn(history) : history[i].src = "main"
  /\ Len(From(history, "main")) = 1

\* The lines of the messages of q that are to be displayed: all of them
\* with --raw, those that are neither Stdout nor Stderr without.
RECURSIVE LinesOf(_)
LinesOf(q) ==
  IF q = <<>> THEN <<>>
  ELSE (IF Head(q).kind \in {"Stdout", "Stderr"} /\ ~include_raw_logs
        THEN <<>> ELSE EventLines(Head(q))) \o LinesOf(Tail(q))

\* C19: in every reachable state the messages main has processed are the
\* first messages of the store, in its order, each once; what main has
\* displayed is the lines of these messages, without those of the Stdout and
\* Stderr messages unless --raw is given; and when main has left the loop on
\* a Finished it received, that Finished is the last message processed and
\* every message the store holds before it has been processed.
C19_DisplayOrder ==
  /\ Len(processed) <= Len(history)
  /\ processed = SubSeq(history, 1, Len(processed))
  /\ out = LinesOf(processed)
  /\ Printed("FinishedReceived") =>
       /\ processed # <<>>
       /\ history[Len(processed)].kind = "Finished"
       /\ \A i \in 1..Len(processed) : processed[i] = history[i]

\* Without --raw and in pretty mode main has left the loop on a Finished it
\* received, after a raw message it did not display, and has printed the
\* line of the Finished only.
C19_Witness ==
  /\ ~include_raw_logs
  /\ pretty
  /\ Printed("FinishedReceived")
  /\ Len(processed) = 2
  /\ processed[1].kind \in {"Stdout", "Stderr"}
  /\ processed[2].kind = "Finished"
  /\ Len(out) = 1

\* A producer other than main has appended a Finished.
ProducerFinished ==
  \E i \in DOMAIN history : history[i].kind = "Finished" /\ history[i].src # "main"

\* C21: when the exit notification never fires and a producer has appended
\* Finished, main leaves its loop only by receiving a Finished from its
\* subscription, and it does so eventually, whatever was appended before and
\* whatever error items the subscription yields in between.
C21_FinishedDrivenLiveness ==
  /\ [][ (ProducerFinished /\ pc = "loop" /\ pc' # "loop")
           => (processed' # processed /\ Consumed.kind = "Finished") ]_vars
  /\ ProducerFinished ~> (pc = "done" /\ Printed("FinishedReceived"))

=============================================================================
